---- MODULE Spec2Model ----
(***************************************************************************)
(* Model of prettyprint.py: a gdb pretty-printer for class-typed values.   *)
(* Strings are sequences of one-character strings, so that slicing,        *)
(* replacing and formatting are computed character by character.           *)
(***************************************************************************)
EXTENDS Integers, Sequences, FiniteSets, TLC

VARIABLES pretty_printers, regCalls, loadLog, cur, calls

vars == <<pretty_printers, regCalls, loadLog, cur, calls>>

----------------------------------------------------------------------------
(* Bounds of the model *)
MaxLoads == 2
MaxCalls == 2

----------------------------------------------------------------------------
(* String helpers *)
Min(a, b) == IF a < b THEN a ELSE b

\* Variant: a name of k characters or fewer is kept whole
SliceFromChecked(s, k) == IF Len(s) > k THEN SubSeq(s, k + 1, Len(s)) ELSE s
\* Python s[k:] : drops the first k characters, all of them when len(s) <= k
SliceFrom(s, k) == SubSeq(s, Min(k, Len(s)) + 1, Len(s))

\* Python s.replace(old, new) for one-character old and new: left to right scan
RECURSIVE StrReplace(_, _, _)
\* Variant: only the first occurrence is replaced
StrReplaceFirst(s, old, new) ==
  IF \E i \in 1..Len(s) : s[i] = old
  THEN LET i == CHOOSE k \in 1..Len(s) : s[k] = old /\ \A j \in 1..(k-1) : s[j] # old
       IN [s EXCEPT ![i] = new]
  ELSE s
StrReplace(s, old, new) ==
  IF s = <<>> THEN <<>>
  ELSE (IF Head(s) = old THEN <<new>> ELSE <<Head(s)>>) \o StrReplace(Tail(s), old, new)

DigitChar(d) == CASE d = 0 -> "0" [] d = 1 -> "1" [] d = 2 -> "2" [] d = 3 -> "3"
                  [] d = 4 -> "4" [] d = 5 -> "5" [] d = 6 -> "6" [] d = 7 -> "7"
                  [] d = 8 -> "8" [] d = 9 -> "9"

RECURSIVE Digits(_)
Digits(n) == IF n < 10 THEN <<DigitChar(n)>>
             ELSE Digits(n \div 10) \o <<DigitChar(n % 10)>>

\* str(n) of a Python int
IntStr(n) == IF n < 0 THEN <<"-">> \o Digits(-n) ELSE Digits(n)

RECURSIVE Pow2(_)
Pow2(w) == IF w = 0 THEN 1 ELSE 2 * Pow2(w - 1)

----------------------------------------------------------------------------
(* Debugger values: a type (name, signedness, bit width) and the raw bits *)
Str_class == <<"c","l","a","s","s">>
Str_show == <<"_","s","h","o","w","(">>

MkValue(name, signed, width, bits) ==
  [type |-> [name |-> name, signed |-> signed, width |-> width], bits |-> bits % Pow2(width)]

Values == {
  MkValue(<<"c","l","a","s","s"," ","F","o","o",".","B","a","r">>, TRUE, 8, 255),
  MkValue(<<"c","l","a","s","s"," ","a",".","b",".","c">>, FALSE, 8, 255),
  MkValue(<<"c","l","a","s","s">>, FALSE, 8, 0),
  MkValue(<<"c","l","a","s","s","F",".","b">>, FALSE, 8, 7),
  MkValue(<<"s","u","b","c","l","a","s","s",".","A">>, FALSE, 8, 120),
  MkValue(<<"i","n","t">>, TRUE, 8, 254) }

\* int(gdb.Value): the value read according to the signedness of its type
ValueToInt(val) ==
  IF val.type.signed /\ val.bits >= Pow2(val.type.width - 1)
  THEN val.bits - Pow2(val.type.width)
  ELSE val.bits

\* Variant: the raw bits rendered, whatever the signedness of the type
FormatUUnsigned(val) == IntStr(val.bits)
\* "%u" % val : in Python the conversion type u is identical to d
FormatU(val) == IntStr(ValueToInt(val))

----------------------------------------------------------------------------
(* The host's expression evaluator: what one parse_and_eval call does *)
EvalReturns == {"void", "int"}
HostErrors == {"NoSymbol"}
NoError == "none"
NoResult == <<"<", "n", "o", "n", "e", ">">>

HostOutcomes ==
  {[ok |-> TRUE, ret |-> r, err |-> NoError] : r \in EvalReturns}
  \cup {[ok |-> FALSE, ret |-> "none", err |-> e] : e \in HostErrors}

----------------------------------------------------------------------------
(* class ClassPrinter *)
ClassPrinter(val) == [val |-> val]

DerivedName(self) == StrReplace(SliceFrom(self.val.type.name, 6), ".", "_")

\* Variant: the argument rendered from the raw bits
ShowExprRaw(className, val) == className \o Str_show \o FormatUUnsigned(val) \o <<")">>
ShowExpr(className, val) == className \o Str_show \o FormatU(val) \o <<")">>

\* Variant: the host's error is caught and the summary returned all the same
to_string_swallow(self, host) ==
  LET className == DerivedName(self)
  IN [self |-> self, className |-> className,
      requests |-> <<ShowExpr(className, self.val)>>,
      raised |-> FALSE, error |-> NoError,
      result |-> FormatU(self.val)]
\* Variant: the summary depends on what the evaluation returned
to_string_useret(self, host) ==
  LET className == DerivedName(self)
  IN [self |-> self, className |-> className,
      requests |-> <<ShowExpr(className, self.val)>>,
      raised |-> ~host.ok,
      error |-> IF host.ok THEN NoError ELSE host.err,
      result |-> IF ~host.ok THEN NoResult
                 ELSE IF host.ret = "int" THEN <<"1">> ELSE FormatU(self.val)]
\* Variant: the value of an earlier call is kept and used again
to_string_cached(self, host) ==
  LET className == DerivedName(self)
      v == IF calls # {} THEN (CHOOSE c \in calls : TRUE).val ELSE self.val
  IN [self |-> [self EXCEPT !.val = v], className |-> className,
      requests |-> <<ShowExpr(className, v)>>,
      raised |-> ~host.ok,
      error |-> IF host.ok THEN NoError ELSE host.err,
      result |-> IF host.ok THEN FormatU(v) ELSE NoResult]
\* One call of to_string on the formatter self, with the host answering the
\* nested evaluation by host.  The result records what the call did.
to_string(self, host) ==
  LET className == DerivedName(self)
  IN [self |-> self, className |-> className,
      requests |-> <<ShowExpr(className, self.val)>>,
      raised |-> ~host.ok,
      error |-> IF host.ok THEN NoError ELSE host.err,
      result |-> IF host.ok THEN FormatU(self.val) ELSE NoResult]

----------------------------------------------------------------------------
(* Registration *)
Objfiles == {"objfile1", "objfile2"}

\* Variant: the anchor is ignored
RegexSearchUnanchored(re, s) ==
  \E i \in 1..(Len(s) - Len(re.lit) + 1) : SubSeq(s, i, i + Len(re.lit) - 1) = re.lit
\* re.search of a pattern that is a literal, optionally anchored with ^
RegexSearch(re, s) ==
  \E i \in 1..(Len(s) - Len(re.lit) + 1) :
     /\ re.anchored => i = 1
     /\ SubSeq(s, i, i + Len(re.lit) - 1) = re.lit

\* Variant: the printer is added twice
build_pretty_printer_two ==
  [name |-> "my_library",
   subprinters |-> << [name |-> "class", re |-> [anchored |-> TRUE, lit |-> Str_class],
                       gen |-> "ClassPrinter"],
                      [name |-> "class", re |-> [anchored |-> TRUE, lit |-> Str_class],
                       gen |-> "ClassPrinter"] >>]
build_pretty_printer ==
  [name |-> "my_library",
   subprinters |-> << [name |-> "class", re |-> [anchored |-> TRUE, lit |-> Str_class],
                       gen |-> "ClassPrinter"] >>]

\* RegexpCollectionPrettyPrinter.__call__: the first subprinter whose regexp
\* is found in the type name makes the printer, else there is none
RegistryCall(pp, val) ==
  IF \E k \in 1..Len(pp.subprinters) : RegexSearch(pp.subprinters[k].re, val.type.name)
  THEN "ClassPrinter" ELSE "None"

\* gdb.printing.register_pretty_printer(obj, printer): a printer whose name is
\* already registered with obj is refused, else it is inserted at the front
register_pretty_printer(printers, obj, printer) ==
  IF \E k \in 1..Len(printers[obj]) : printers[obj][k].name = printer.name
  THEN printers
  ELSE [printers EXCEPT ![obj] = <<printer>> \o @]

\* The registries the host consults when it displays a value
Registered == UNION {{pretty_printers[o][k] : k \in 1..Len(pretty_printers[o])} : o \in Objfiles}

----------------------------------------------------------------------------
\* Placeholders for "no value displayed yet" and "no printer found"
NoValue == [type |-> [name |-> <<>>, signed |-> FALSE, width |-> 1], bits |-> 0]
NoPrinter == [val |-> NoValue]

Init ==
  /\ pretty_printers = [o \in Objfiles |-> <<>>]
  /\ regCalls = <<>>
  /\ loadLog = <<>>
  /\ cur = [val |-> NoValue, has |-> FALSE, printer |-> NoPrinter, via |-> "none"]
  /\ calls = {}

\* The script is loaded while o is the current objfile (lines 36-37)
Load(o) ==
  /\ Len(loadLog) < MaxLoads
  /\ loadLog' = Append(loadLog, o)
  /\ LET pp == build_pretty_printer
     IN /\ regCalls' = Append(regCalls, [objfile |-> o, printer |-> pp])
        /\ pretty_printers' = register_pretty_printer(pretty_printers, o, pp)
  /\ UNCHANGED <<cur, calls>>

\* The host displays val: it asks the registered registries for a printer
Lookup(val) ==
  /\ Registered # {}
  /\ LET found == \E pp \in Registered : RegistryCall(pp, val) = "ClassPrinter"
     IN cur' = [val |-> val, via |-> "registry", has |-> found,
                printer |-> IF found THEN ClassPrinter(val) ELSE NoPrinter]
  /\ UNCHANGED <<pretty_printers, regCalls, loadLog, calls>>

\* ClassPrinter(val) constructed directly, whatever the type of val
Construct(val) ==
  /\ cur' = [val |-> val, via |-> "direct", has |-> TRUE, printer |-> ClassPrinter(val)]
  /\ UNCHANGED <<pretty_printers, regCalls, loadLog, calls>>

\* The host calls to_string on the formatter it holds; host is its answer to
\* the nested evaluation request.  calls records what each call did.
CallToString(host) ==
  /\ Cardinality(calls) < MaxCalls
  /\ cur.has
  /\ LET r == to_string(cur.printer, host)
     IN /\ cur' = [cur EXCEPT !.printer = r.self]
        /\ calls' = calls \cup {[val |-> cur.printer.val, valAfter |-> r.self.val,
                                  className |-> r.className, requests |-> r.requests,
                                  raised |-> r.raised, error |-> r.error,
                                  host |-> host, result |-> r.result]}
  /\ UNCHANGED <<pretty_printers, regCalls, loadLog>>

Next ==
  \/ \E o \in Objfiles : Load(o)
  \/ \E val \in Values : Lookup(val)
  \/ \E val \in Values : Construct(val)
  \/ \E host \in HostOutcomes : CallToString(host)

Spec == Init /\ [][Next]_vars

----------------------------------------------------------------------------
(* Properties *)

\* The prefix a class type name is expected to carry: the keyword and one
\* separator, six characters in all
ClassPrefix == <<"c","l","a","s","s"," ">>

StartsWith(s, p) == Len(s) >= Len(p) /\ SubSeq(s, 1, Len(p)) = p

\* The characters of name after the first n, read position by position
Remainder(name, n) == [i \in 1..(IF Len(name) > n THEN Len(name) - n ELSE 0) |-> name[i + n]]

\* A remainder with every period turned into an underscore, position by position
Underscored(rem) == [i \in 1..Len(rem) |-> IF rem[i] = "." THEN "_" ELSE rem[i]]

DecimalDigits == {"0","1","2","3","4","5","6","7","8","9"}

DigitValue(ch) == CHOOSE d \in 0..9 : DigitChar(d) = ch

\* The number a string of decimal digits denotes
RECURSIVE DecimalValue(_)
DecimalValue(s) == IF s = <<>> THEN 0
                   ELSE 10 * DecimalValue(SubSeq(s, 1, Len(s) - 1)) + DigitValue(s[Len(s)])

\* The signed (two's complement) reading of the bits of val
SignedReading(val) ==
  IF val.bits >= Pow2(val.type.width - 1) THEN val.bits - Pow2(val.type.width) ELSE val.bits

Str_Foo_Bar == <<"F","o","o","_","B","a","r">>

\* C1: for a type name that starts with the 6-character class prefix, the
\* derived function name is the remainder with every period replaced by an
\* underscore and every other character unchanged in place; it holds no
\* period and is as long as the remainder.
C1_DerivedName ==
  \A c \in calls :
    StartsWith(c.val.type.name, ClassPrefix) =>
      LET rem == Remainder(c.val.type.name, Len(ClassPrefix))
      IN /\ c.className = Underscored(rem)
         /\ Len(c.className) = Len(rem)
         /\ \A i \in 1..Len(c.className) : c.className[i] # "."

\* to_string has run on a value whose type name has the remainder "Foo.Bar"
C1_Witness ==
  \E c \in calls :
    /\ c.val.type.name = ClassPrefix \o <<"F","o","o",".","B","a","r">>
    /\ c.className = Str_Foo_Bar

\* C2: a call of to_string that returns a string has issued exactly one
\* evaluation request, whose expression is the derived name, "_show(", the
\* text that the call returns as the summary, and ")".
C2_OneRequest ==
  \A c \in calls :
    ~c.raised =>
      /\ Len(c.requests) = 1
      /\ c.requests[1] = c.className \o Str_show \o c.result \o <<")">>

C2_Witness ==
  \E c \in calls :
    /\ ~c.raised
    /\ c.val.type.signed
    /\ c.requests = << Str_Foo_Bar \o Str_show \o <<"-","1",")">> >>

\* C3: the string returned by to_string is the decimal rendering of the
\* value read as an unsigned integer: decimal digits only, no minus sign,
\* and for a value whose signed reading is a negative n, the rendering of
\* n + 2^w.
C3_UnsignedSummary ==
  \A c \in calls :
    ~c.raised =>
      /\ \A i \in 1..Len(c.result) : c.result[i] \in DecimalDigits
      /\ Len(c.result) > 0
      /\ LET n == SignedReading(c.val)
         IN DecimalValue(c.result) = IF n < 0 THEN n + Pow2(c.val.type.width) ELSE n

\* C4: when the host's evaluation fails, to_string fails with that same
\* error, returns no summary, and has made one evaluation request only.
C4_ErrorPropagates ==
  \A c \in calls :
    ~c.host.ok =>
      /\ c.raised
      /\ c.error = c.host.err
      /\ c.result = NoResult
      /\ Len(c.requests) = 1

C4_Witness ==
  \E c \in calls : ~c.host.ok /\ c.raised /\ c.error \in HostErrors

\* C5: the registry gives a value to ClassPrinter if and only if its type
\* name begins with "class"; a name holding "class" later, or not at all,
\* is never matched.
C5_MatchIffPrefix ==
  /\ cur.via = "registry" => (cur.has <=> StartsWith(cur.val.type.name, Str_class))
  /\ \A pp \in Registered : \A val \in Values :
       (RegistryCall(pp, val) = "ClassPrinter") <=> StartsWith(val.type.name, Str_class)

\* The host looked up a value whose type name holds "class" at a later position
C5_Witness ==
  /\ cur.via = "registry"
  /\ ~cur.has
  /\ cur.val.type.name = <<"s","u","b">> \o Str_class \o <<".","A">>

\* C6: each load makes exactly one registration call, of a registry with
\* exactly one printer entry, with the objfile current at that load; an
\* objfile holds a registry exactly when the script was loaded for it, and
\* to_string calls register nothing.
C6_OneRegistrationPerLoad ==
  /\ Len(regCalls) = Len(loadLog)
  /\ \A i \in 1..Len(regCalls) :
       /\ regCalls[i].objfile = loadLog[i]
       /\ Len(regCalls[i].printer.subprinters) = 1
  /\ \A o \in Objfiles :
       /\ (pretty_printers[o] # <<>>) <=> (\E i \in 1..Len(loadLog) : loadLog[i] = o)
       /\ \A k \in 1..Len(pretty_printers[o]) : Len(pretty_printers[o][k].subprinters) = 1

C6_Witness ==
  /\ loadLog = <<"objfile1", "objfile2">>
  /\ calls # {}
  /\ Len(regCalls) = 2

\* C7: for the same value, two calls whose host evaluations succeed with
\* different results return the same summary.
C7_ReturnDiscarded ==
  \A c, d \in calls :
    (c.val = d.val /\ c.host.ok /\ d.host.ok) => (~c.raised /\ ~d.raised /\ c.result = d.result)

C7_Witness ==
  \E c, d \in calls :
    c.val = d.val /\ c.host.ok /\ d.host.ok /\ c.host.ret # d.host.ret

\* C8: to_string leaves the value held by the formatter and the registry
\* unchanged, and any two calls on the same value issue the same expression
\* and, when both return, return the same summary.
C8_CallsAgree ==
  \A c, d \in calls :
    /\ c.valAfter = c.val
    /\ c.val = d.val =>
         /\ c.requests = d.requests
         /\ (~c.raised /\ ~d.raised) => c.result = d.result

C8_NoMutableState ==
  /\ []C8_CallsAgree
  /\ [][calls' # calls =>
          /\ pretty_printers' = pretty_printers
          /\ regCalls' = regCalls
          /\ cur'.printer = cur.printer]_vars

\* Two calls were made, the second on another value than the first
C8_Witness ==
  /\ Cardinality(calls) = 2
  /\ \E c, d \in calls : c.val # d.val /\ c.val = cur.printer.val
  /\ Registered # {}

\* C9: whatever the first six characters of the type name are, to_string
\* drops exactly those six (all of the name when it has six or fewer) and
\* issues the evaluation request; the type name "class" gives the empty
\* derived name and the expression "_show(<value>)".
C9_NoValidation ==
  \A c \in calls :
    /\ c.className = Underscored(Remainder(c.val.type.name, 6))
    /\ Len(c.requests) = 1
    /\ c.val.type.name = Str_class =>
         /\ c.className = <<>>
         /\ SubSeq(c.requests[1], 1, Len(Str_show)) = Str_show
         /\ c.requests[1][Len(c.requests[1])] = ")"
         /\ \A i \in (Len(Str_show) + 1)..(Len(c.requests[1]) - 1) :
              c.requests[1][i] \in DecimalDigits \cup {"-"}

\* The registry matched the type name "class" and to_string ran on the value
C9_Witness ==
  /\ cur.via = "registry" /\ cur.has /\ cur.val.type.name = Str_class
  /\ \E c \in calls : c.val = cur.val /\ c.requests = << Str_show \o <<"0", ")">> >>
  /\ \E c \in calls : c.val.type.name = <<"i","n","t">> /\ c.className = <<>>

\* C10: for every type name the registry gives to ClassPrinter, the six
\* characters that to_string strips are the class prefix, so the derived
\* name keeps every character of the class's own name.
C10_MatchImpliesPrefix ==
  (cur.via = "registry" /\ cur.has) =>
    \A c \in calls :
      c.val = cur.val =>
        /\ StartsWith(c.val.type.name, ClassPrefix)
        /\ Len(c.className) + Len(ClassPrefix) = Len(c.val.type.name)
====
